---- MODULE Spec2Model ----
(***************************************************************************)
(* Model of the spaced-repetition scheduling engine of                     *)
(* src/src/services/LearningEngine.ts: the persisted word-statistics map,  *)
(* the result processor (updateStatsOnResult), the hard flag, the resets   *)
(* and the daily queue builder.                                            *)
(*                                                                         *)
(* Dates are 'YYYY-MM-DD' strings in the source; here a date is the number *)
(* of the (UTC) day it names and NULL stands for null.  The wall clock is  *)
(* counted in ticks, TicksPerDay ticks to the day, so that an instant is   *)
(* more than a date: new Date() is `clock', getTodayString() is the day    *)
(* the clock is in, and new Date('YYYY-MM-DD') is the first tick of that   *)
(* day.                                                                    *)
(***************************************************************************)
EXTENDS Integers, Sequences, FiniteSets, TLC

\* ---------------------------------------------------------------- bounds
TicksPerDay == 2      \* instants distinguished within one day
MaxLapses   == 2      \* times the learner lets time pass in one run
MaxSeen     == 3      \* results recorded in the store, all words together
MaxDrill    == 7      \* results recorded when one word is drilled
MaxSeenIO   == 2      \* results recorded when the store's I/O may fail
MaxSeenQueue == 2     \* results recorded when daily queues are built
MaxGoal     == 2      \* largest dailyGoal requested
MaxCalls    == 3      \* results submitted when calls may overlap
MaxSeenProgress == 3  \* results recorded when progress is summarised or reset
MaxWords    == 4      \* longest word list handed to interleaveByCategory
MaxLevelArg == 7      \* largest |level| handed to computeNextDue

\* ---------------------------------------------------------------- corpus
\* The word list (words.json), in corpus order: id and category.
Words == << [id |-> "hola",  category |-> "greetings"],
            [id |-> "gato",  category |-> "animals"] >>

WordIds == { Words[i].id : i \in 1..Len(Words) }

LearningResult == {"correct", "wrong", "skipped"}

NULL == -1

VARIABLES
    store,     \* the value under STORAGE_KEYS.WORD_STATS: wordId -> WordStats
    clock,     \* the wall clock, in ticks
    lapses,    \* how many times time has passed so far
    ret,       \* outcome of the most recent call into the engine
    pending,   \* calls that have read the store and not yet written it
    made       \* wordId -> results submitted for it so far

vars == << store, clock, lapses, ret, pending, made >>

\* ------------------------------------------------------- utility functions
Min(a, b) == IF a <= b THEN a ELSE b
Max(a, b) == IF a >= b THEN a ELSE b

getTodayString == clock \div TicksPerDay

\* The instant new Date('YYYY-MM-DD') denotes: midnight of that day.
DateOf(day) == day * TicksPerDay

addDaysInstants(instant, days) == instant + days

\* addDays on an instant.
addDays(instant, days) == instant + days * TicksPerDay

\* toISOString().split('T')[0] of an instant.
DayOf(instant) == instant \div TicksPerDay

isDueStrict(nextDue) ==
    IF nextDue = NULL THEN TRUE
    ELSE DateOf(nextDue) < DateOf(getTodayString)

isDue(nextDue) ==
    IF nextDue = NULL THEN TRUE
    ELSE DateOf(nextDue) <= DateOf(getTodayString)

wasWrongRecently(lastWrongDate, days) ==
    IF lastWrongDate = NULL THEN FALSE
    ELSE DateOf(lastWrongDate) >= addDays(clock, -days)

\* Every order Fisher-Yates can leave the array in.
shuffleArray(array) ==
    { [i \in 1..Len(array) |-> array[p[i]]] : p \in Permutations(1..Len(array)) }

sliceOneMore(array, n) == SubSeq(array, 1, Min(Max(n, 0) + 1, Len(array)))

\* array.slice(0, n)
slice(array, n) == SubSeq(array, 1, Min(Max(n, 0), Len(array)))

includes(array, w) == \E i \in 1..Len(array) : array[i] = w

\* ------------------------------------------------------------ SRS algorithm
SRS_INTERVALS == [l \in 0..5 |-> CASE l = 0 -> 0 [] l = 1 -> 1 [] l = 2 -> 3
                                   [] l = 3 -> 7 [] l = 4 -> 14 [] l = 5 -> 30]

computeNextDueUnclamped(level) ==
    LET days == IF level \in DOMAIN SRS_INTERVALS THEN SRS_INTERVALS[level] ELSE 0
    IN  DayOf(addDays(clock, days))

\* SRS_INTERVALS[Math.min(level, 5)] || 0 : a key that is not in the table
\* gives undefined, hence 0.
computeNextDue(level) ==
    LET k    == Min(level, 5)
        days == IF k \in DOMAIN SRS_INTERVALS THEN SRS_INTERVALS[k] ELSE 0
    IN  DayOf(addDays(clock, days))

NewStats(wordId, hard) ==
    [wordId |-> wordId, seen |-> 0, correct |-> 0, wrong |-> 0, streak |-> 0,
     level |-> 0, lastSeen |-> NULL, nextDue |-> NULL, hardFlag |-> hard,
     lastWrongDate |-> NULL]

\* The statistics updateStatsOnResult computes from the record it read.
\* (levelUpEager, levelDownUnguarded, onWrongKeepStreak,
\* saveWordStatsSwallowed and the like are faulty variants, each defined
\* just before the definition it is a variant of and used to show that the
\* properties below depend on the code they are about.)
levelUpEager(stats) ==
    IF stats.streak >= 1 /\ stats.level < 5 THEN stats.level + 1 ELSE stats.level

levelUp(stats) ==
    IF stats.streak >= 2 /\ stats.level < 5 THEN stats.level + 1 ELSE stats.level

levelDownUnguarded(stats) == stats.level - 1

levelDown(stats) ==
    IF stats.level > 0 THEN stats.level - 1 ELSE stats.level

onCorrectUncounted(stats) ==
    LET s == [stats EXCEPT !.streak = @ + 1]
    IN  [s EXCEPT !.level = levelUp(s)]

onCorrectResetStreak(stats) ==
    LET s == [stats EXCEPT !.correct = @ + 1, !.streak = @ + 1]
        l == levelUp(s)
    IN  [s EXCEPT !.level = l, !.streak = IF l > stats.level THEN 0 ELSE @]

onCorrect(stats) ==
    LET s == [stats EXCEPT !.correct = @ + 1, !.streak = @ + 1]
    IN  [s EXCEPT !.level = levelUp(s)]

onWrongKeepStreak(stats) ==
    LET s == [stats EXCEPT !.wrong = @ + 1, !.lastWrongDate = getTodayString]
    IN  [s EXCEPT !.level = levelDown(s)]

onWrong(stats) ==
    LET s == [stats EXCEPT !.wrong = @ + 1, !.streak = 0,
                           !.lastWrongDate = getTodayString]
    IN  [s EXCEPT !.level = levelDown(s)]

applyResultSkipUncounted(allStats, wordId, result) ==
    LET stats == IF wordId \in DOMAIN allStats THEN allStats[wordId]
                 ELSE NewStats(wordId, FALSE)
        s1 == [stats EXCEPT !.seen = @ + 1, !.lastSeen = getTodayString]
        s2 == CASE result = "correct" -> onCorrect(s1)
                [] result = "wrong"   -> onWrong(s1)
                [] OTHER              -> stats
    IN  [s2 EXCEPT !.nextDue = computeNextDue(s2.level)]

applyResultSkipUnscheduled(allStats, wordId, result) ==
    LET stats == IF wordId \in DOMAIN allStats THEN allStats[wordId]
                 ELSE NewStats(wordId, FALSE)
        s1 == [stats EXCEPT !.seen = @ + 1, !.lastSeen = getTodayString]
        s2 == CASE result = "correct" -> onCorrect(s1)
                [] result = "wrong"   -> onWrong(s1)
                [] OTHER              -> s1
    IN  IF result = "skipped" THEN s2
        ELSE [s2 EXCEPT !.nextDue = computeNextDue(s2.level)]

applyResult(allStats, wordId, result) ==
    LET stats == IF wordId \in DOMAIN allStats THEN allStats[wordId]
                 ELSE NewStats(wordId, FALSE)
        s1 == [stats EXCEPT !.seen = @ + 1, !.lastSeen = getTodayString]
        s2 == CASE result = "correct" -> onCorrect(s1)
                [] result = "wrong"   -> onWrong(s1)
                [] OTHER              -> s1
    IN  [s2 EXCEPT !.nextDue = computeNextDue(s2.level)]

PutAlone(allStats, wordId, stats) == [k \in {wordId} |-> stats]

\* allStats[wordId] = stats
Put(allStats, wordId, stats) ==
    [k \in DOMAIN allStats \cup {wordId} |->
        IF k = wordId THEN stats ELSE allStats[k]]

EmptyStats == [k \in {} |-> NewStats(k, FALSE)]

\* --------------------------------------------------------------- storage
\* getWordStats: the stored map, {} when nothing is stored, and {} again
\* when the read rejects (the catch clause).
getWordStats(readOk) == IF readOk THEN store ELSE EmptyStats

saveWordStatsSwallowed(writeOk) == "ok"

\* saveWordStats awaits set() with no catch clause: a rejected write rejects
\* the call that awaits it.
saveWordStats(writeOk) == IF writeOk THEN "ok" ELSE "error"

TotalSeen(allStats) ==
    LET RECURSIVE Sum(_)
        Sum(S) == IF S = {} THEN 0
                  ELSE LET k == CHOOSE x \in S : TRUE
                       IN  allStats[k].seen + Sum(S \ {k})
    IN  Sum(DOMAIN allStats)

\* What is stored for wordId, the initial statistics when nothing is.
StatsOf(allStats, wordId) ==
    IF wordId \in DOMAIN allStats THEN allStats[wordId] ELSE NewStats(wordId, FALSE)

NoRet == [op |-> "none"]

\* In-flight calls are kept in slots.
Slots == 1..2
Idle == [pc |-> "idle"]

Init ==
    /\ store = EmptyStats
    /\ clock = 0
    /\ lapses = 0
    /\ ret = NoRet
    /\ pending = [c \in Slots |-> Idle]
    /\ made = [w \in WordIds |-> 0]

\* updateStatsOnResult(wordId, result), run to completion.  readOk and
\* writeOk say whether the store's get and set resolve or reject.  ret keeps
\* what the caller gets back (the statistics, or a rejection) next to the
\* store as it was when the call began and the day of the call.
updateStatsOnResult(wordId, result, readOk, writeOk) ==
    LET allStats == getWordStats(readOk)
        stats    == applyResult(allStats, wordId, result)
        status   == saveWordStats(writeOk)
        call     == [op |-> "updateStatsOnResult", wordId |-> wordId,
                     result |-> result, readOk |-> readOk, writeOk |-> writeOk,
                     before |-> store, at |-> getTodayString, status |-> status]
    IN  /\ store' = IF writeOk THEN Put(allStats, wordId, stats) ELSE store
        /\ ret' = IF status = "ok" THEN [stats |-> stats] @@ call ELSE call
        /\ UNCHANGED << clock, lapses, pending, made >>

toggledSet(allStats, wordId) ==
    IF wordId \notin DOMAIN allStats
    THEN Put(allStats, wordId, NewStats(wordId, TRUE))
    ELSE [allStats EXCEPT ![wordId].hardFlag = TRUE]

\* toggleHardFlag(wordId), run to completion.
toggled(allStats, wordId) ==
    IF wordId \notin DOMAIN allStats
    THEN Put(allStats, wordId, NewStats(wordId, TRUE))
    ELSE [allStats EXCEPT ![wordId].hardFlag = ~@]

toggleHardFlag(wordId, readOk, writeOk) ==
    LET allStats == toggled(getWordStats(readOk), wordId)
        status   == saveWordStats(writeOk)
        call     == [op |-> "toggleHardFlag", wordId |-> wordId,
                     readOk |-> readOk, writeOk |-> writeOk,
                     before |-> store, status |-> status]
    IN  /\ store' = IF writeOk THEN allStats ELSE store
        /\ ret' = IF status = "ok"
                  THEN [value |-> allStats[wordId].hardFlag] @@ call ELSE call
        /\ UNCHANGED << clock, lapses, pending, made >>

\* Time passes between two calls: an instant, a day or a week.
Elapsed == {1, TicksPerDay, 7 * TicksPerDay}

Lapse(d) ==
    /\ lapses < MaxLapses
    /\ clock' = clock + d
    /\ lapses' = lapses + 1
    /\ ret' = NoRet
    /\ UNCHANGED << store, pending, made >>

\* ------------------------------------------------------------------------
\* Spec: the learner answers, skips, flags and waits; every call runs to
\* completion before the next one starts and the store's I/O succeeds.
Answer(w, r) ==
    /\ TotalSeen(store) < MaxSeen
    /\ updateStatsOnResult(w, r, TRUE, TRUE)

MarkHard(w) == toggleHardFlag(w, TRUE, TRUE)

Next ==
    \/ \E w \in WordIds, r \in LearningResult : Answer(w, r)
    \/ \E w \in WordIds : MarkHard(w)
    \/ \E d \in Elapsed : Lapse(d)

Spec == Init /\ [][Next]_vars

\* ------------------------------------------------------------------------
\* SpecDrill: one word is answered over and over.
DrillWord == Words[1].id

Drill(r) ==
    /\ TotalSeen(store) < MaxDrill
    /\ updateStatsOnResult(DrillWord, r, TRUE, TRUE)

DrillMarkHard == toggleHardFlag(DrillWord, TRUE, TRUE)

NextDrill ==
    \/ \E r \in LearningResult : Drill(r)
    \/ DrillMarkHard
    \/ \E d \in Elapsed : Lapse(d)

SpecDrill == Init /\ [][NextDrill]_vars

\* ------------------------------------------------------------------------
\* SpecIO: as Spec, and the store's get and set may reject; time passes a
\* day at a time.
AnswerIO(w, r, readOk, writeOk) ==
    /\ TotalSeen(store) < MaxSeenIO
    /\ updateStatsOnResult(w, r, readOk, writeOk)

MarkHardIO(w, readOk, writeOk) == toggleHardFlag(w, readOk, writeOk)

NextIO ==
    \/ \E w \in WordIds, r \in LearningResult, readOk, writeOk \in BOOLEAN :
          AnswerIO(w, r, readOk, writeOk)
    \/ \E w \in WordIds, readOk, writeOk \in BOOLEAN : MarkHardIO(w, readOk, writeOk)
    \/ Lapse(TicksPerDay)

SpecIO == Init /\ [][NextIO]_vars

\* ------------------------------------------------------------------------
\* Daily queue builder.
\* The ids of the corpus, in corpus order.
WordSeq == [i \in 1..Len(Words) |-> Words[i].id]

\* The classification loop over the corpus.
isNew(allStats, w)  == w \notin DOMAIN allStats \/ allStats[w].seen = 0
isSeen(allStats, w) == ~isNew(allStats, w)

dueBucket(allStats) ==
    LET keep(w) == isSeen(allStats, w) /\ isDue(allStats[w].nextDue)
    IN  SelectSeq(WordSeq, keep)

recentlyWrongBucket(allStats) ==
    LET keep(w) == isSeen(allStats, w) /\ wasWrongRecently(allStats[w].lastWrongDate, 7)
    IN  SelectSeq(WordSeq, keep)

hardBucket(allStats) ==
    LET keep(w) == isSeen(allStats, w) /\ allStats[w].hardFlag
    IN  SelectSeq(WordSeq, keep)

newBucket(allStats) ==
    LET keep(w) == isNew(allStats, w)
    IN  SelectSeq(WordSeq, keep)

seenBucket(allStats) ==
    LET keep(w) == isSeen(allStats, w)
    IN  SelectSeq(WordSeq, keep)

\* Math.max(0, dailyGoal - priorityCount)
newWordsToAdd(dailyGoal, priorityCount) == Max(0, dailyGoal - priorityCount)

remainingForMixAll(dailyGoal, priorityCount, selected) ==
    Max(0, dailyGoal - priorityCount)

\* Math.max(0, dailyGoal - priorityCount - selectedNewWords.length)
remainingForMix(dailyGoal, priorityCount, selected) ==
    Max(0, dailyGoal - priorityCount - selected)

\* Every DailyQueue buildDailyQueue(words, dailyGoal) can return.
dailyQueues(allStats, dailyGoal) ==
    LET dueWords      == dueBucket(allStats)
        recentlyWrong == recentlyWrongBucket(allStats)
        hardWords     == hardBucket(allStats)
        newWords      == newBucket(allStats)
        seenWords     == seenBucket(allStats)
        priorityCount == Len(dueWords) + Len(recentlyWrong) + Len(hardWords)
        rest(w)       == /\ ~includes(dueWords, w)
                         /\ ~includes(recentlyWrong, w)
                         /\ ~includes(hardWords, w)
        forMix        == SelectSeq(seenWords, rest)
    IN  { LET mixedReview ==
                  slice(mixed, remainingForMix(dailyGoal, priorityCount,
                                               Len(selectedNewWords)))
              total == Len(dueWords) + Len(recentlyWrong) + Len(hardWords)
                       + Len(selectedNewWords) + Len(mixedReview)
          IN  [dueWords |-> d, recentlyWrong |-> rw, hardWords |-> h,
               newWords |-> selectedNewWords, mixedReview |-> mixedReview,
               total |-> total, estimatedMinutes |-> (total + 1) \div 2]
          : d \in shuffleArray(dueWords), rw \in shuffleArray(recentlyWrong),
            h \in shuffleArray(hardWords),
            selectedNewWords \in { slice(n, newWordsToAdd(dailyGoal, priorityCount)) :
                                     n \in shuffleArray(newWords) },
            mixed \in shuffleArray(forMix) }

buildDailyQueue(dailyGoal, readOk) ==
    /\ \E queue \in dailyQueues(getWordStats(readOk), dailyGoal) :
          ret' = [op |-> "buildDailyQueue", dailyGoal |-> dailyGoal,
                  readOk |-> readOk, queue |-> queue]
    /\ UNCHANGED << store, clock, lapses, pending, made >>

\* SpecQueue: as Spec, and the learner opens the Learn or Review page.
OpenPage(goal) == buildDailyQueue(goal, TRUE)

AnswerQueue(w, r) ==
    /\ TotalSeen(store) < MaxSeenQueue
    /\ updateStatsOnResult(w, r, TRUE, TRUE)

NextQueue ==
    \/ \E w \in WordIds, r \in LearningResult : AnswerQueue(w, r)
    \/ \E w \in WordIds : MarkHard(w)
    \/ \E d \in Elapsed : Lapse(d)
    \/ \E goal \in 1..MaxGoal : OpenPage(goal)

SpecQueue == Init /\ [][NextQueue]_vars

\* ------------------------------------------------------------------------
\* The session queue (getDailySessionQueue) and the interleaver.
\* Further entries of the word list, for word lists longer than the corpus
\* kept in the store.
Vocabulary ==
    Words \o << [id |-> "adios", category |-> "greetings"],
                [id |-> "perro", category |-> "animals"],
                [id |-> "rojo",  category |-> "colors"] >>

VocabularyIds == { Vocabulary[i].id : i \in 1..Len(Vocabulary) }

\* word.category
categoryOf(w) ==
    (CHOOSE x \in { Vocabulary[i] : i \in 1..Len(Vocabulary) } : x.id = w).category

\* Object.keys(byCategory): the categories in the order they first occur.
categoriesOf(words) ==
    LET RECURSIVE keys(_, _)
        keys(i, acc) ==
            IF i > Len(words) THEN acc
            ELSE keys(i + 1, IF includes(acc, categoryOf(words[i])) THEN acc
                             ELSE Append(acc, categoryOf(words[i])))
    IN  keys(1, << >>)

\* byCategory[cat]
byCategoryOf(words, cat) ==
    LET keep(w) == categoryOf(w) = cat
    IN  SelectSeq(words, keep)

interleaveGrouped(words) ==
    LET categories == categoriesOf(words)
        RECURSIVE groups(_)
        groups(k) == IF k > Len(categories) THEN << >>
                     ELSE byCategoryOf(words, categories[k]) \o groups(k + 1)
    IN  groups(1)

interleaveByCategory(words) ==
    LET categories == categoriesOf(words)
        \* one pass of the for loop at a given index (0-based, as in the code)
        RECURSIVE pass(_, _)
        pass(k, index) ==
            IF k > Len(categories) THEN << >>
            ELSE (IF Len(byCategoryOf(words, categories[k])) > index
                  THEN << byCategoryOf(words, categories[k])[index + 1] >>
                  ELSE << >>) \o pass(k + 1, index)
        \* the while loop
        RECURSIVE loop(_, _)
        loop(result, index) ==
            IF Len(result) < Len(words)
            THEN loop(result \o pass(1, index), index + 1)
            ELSE result
    IN  loop(<< >>, 0)

\* The de-duplicated concatenation getDailySessionQueue hands to the
\* interleaver.
prioritized(queue) ==
    LET notDue(w) == ~includes(queue.dueWords, w)
        notDueNorWrong(w) == ~includes(queue.dueWords, w)
                                /\ ~includes(queue.recentlyWrong, w)
    IN  queue.dueWords
            \o SelectSeq(queue.recentlyWrong, notDue)
            \o SelectSeq(queue.hardWords, notDueNorWrong)
            \o queue.newWords \o queue.mixedReview

getDailySessionQueue(dailyGoal, readOk) ==
    /\ \E queue \in dailyQueues(getWordStats(readOk), dailyGoal) :
          ret' = [op |-> "getDailySessionQueue", dailyGoal |-> dailyGoal,
                  readOk |-> readOk, queue |-> queue,
                  session |-> interleaveByCategory(prioritized(queue))]
    /\ UNCHANGED << store, clock, lapses, pending, made >>

\* The learner starts a session on the Learn page.
StartSession(goal) == getDailySessionQueue(goal, TRUE)

\* ------------------------------------------------------------------------
\* Progress summary and reset.
\* Math.round((totalCorrect / totalSeen) * 100), rounding halves up.
accuracyOf(totalCorrect, totalSeen) ==
    IF totalSeen > 0 THEN (200 * totalCorrect + totalSeen) \div (2 * totalSeen)
    ELSE 0

\* The counters of the loop of getProgressSummary, each as the number of
\* words for which the loop adds 1 to it.
\* wordsLearned is counted in the else branch of `stats.level >= 4`.
wordsLearned(allStats) ==
    LET counted(w) == /\ isSeen(allStats, w)
                      /\ ~(allStats[w].level >= 4)
                      /\ allStats[w].level >= 1
    IN  Len(SelectSeq(WordSeq, counted))

wordsMastered(allStats) ==
    LET counted(w) == isSeen(allStats, w) /\ allStats[w].level >= 4
    IN  Len(SelectSeq(WordSeq, counted))

wordsInProgress(allStats) ==
    LET counted(w) == isSeen(allStats, w) /\ allStats[w].level < 4
    IN  Len(SelectSeq(WordSeq, counted))

wordsNew(allStats) == Len(newBucket(allStats))

dueToday(allStats) == Len(dueBucket(allStats))

\* byLevel: new words are counted at level 0, seen words at their level.
byLevel(allStats) ==
    [l \in 0..5 |->
        LET counted(w) == IF isNew(allStats, w) THEN l = 0
                          ELSE allStats[w].level = l
        IN  Len(SelectSeq(WordSeq, counted))]

\* The totals of correct and of seen over the seen words of the corpus.
totalOf(allStats, field) ==
    LET RECURSIVE Sum(_)
        Sum(i) == IF i > Len(WordSeq) THEN 0
                  ELSE (IF isSeen(allStats, WordSeq[i])
                        THEN allStats[WordSeq[i]][field] ELSE 0) + Sum(i + 1)
    IN  Sum(1)

\* The ProgressSummary computed from the map read (the streak and the
\* per-category figures, which no property below reads, are left out).
progressSummary(allStats) ==
    [totalWords      |-> Len(WordSeq),
     wordsLearned    |-> wordsLearned(allStats),
     wordsMastered   |-> wordsMastered(allStats),
     wordsInProgress |-> wordsInProgress(allStats),
     wordsNew        |-> wordsNew(allStats),
     dueToday        |-> dueToday(allStats),
     accuracy        |-> accuracyOf(totalOf(allStats, "correct"),
                                    totalOf(allStats, "seen")),
     byLevel         |-> byLevel(allStats)]

getProgressSummary(readOk) ==
    /\ ret' = [op |-> "getProgressSummary", readOk |-> readOk,
               summary |-> progressSummary(getWordStats(readOk))]
    /\ UNCHANGED << store, clock, lapses, pending, made >>

resetAllProgressKeep == store

\* set(WORD_STATS, {}): the map written by resetAllProgress.  (The session
\* history, the streak and the last session date it also clears are not part
\* of the model.)
resetAllProgressStats == EmptyStats

\* resetAllProgress run to completion, followed by the reload of the figures
\* the Settings page does next (await resetAllProgress(); await loadData()).
resetAllProgress ==
    /\ store' = resetAllProgressStats
    /\ ret' = [op |-> "resetAllProgress", before |-> store,
               summary |-> progressSummary(resetAllProgressStats)]
    /\ UNCHANGED << clock, lapses, pending, made >>

\* delete allStats[wordId]
deleted(allStats, wordId) ==
    [k \in DOMAIN allStats \ {wordId} |-> allStats[k]]

\* resetWordProgress(wordId), run to completion on a store whose get and set
\* resolve.
resetWordProgress(wordId) ==
    /\ store' = deleted(getWordStats(TRUE), wordId)
    /\ ret' = [op |-> "resetWordProgress", wordId |-> wordId, before |-> store]
    /\ UNCHANGED << clock, lapses, pending, made >>

\* SpecProgress: the learner answers and flags words, lets days pass, looks
\* at the progress figures, and the progress of one word or of all words is
\* reset.
AnswerProgress(w, r) ==
    /\ TotalSeen(store) < MaxSeenProgress
    /\ updateStatsOnResult(w, r, TRUE, TRUE)

ShowProgress == getProgressSummary(TRUE)

ResetAll == resetAllProgress

ResetOne(w) == resetWordProgress(w)

NextProgress ==
    \/ \E w \in WordIds, r \in LearningResult : AnswerProgress(w, r)
    \/ \E w \in WordIds : MarkHard(w)
    \/ Lapse(TicksPerDay)
    \/ ShowProgress
    \/ ResetAll
    \/ \E w \in WordIds : ResetOne(w)

SpecProgress == Init /\ [][NextProgress]_vars

\* ------------------------------------------------------------------------
\* SpecReview: as SpecDrill, and the learner opens the page, starts a
\* session or looks at the progress figures at any point of the drill.
NextReview ==
    \/ \E r \in LearningResult : Drill(r)
    \/ DrillMarkHard
    \/ \E d \in Elapsed : Lapse(d)
    \/ \E goal \in 1..MaxGoal : OpenPage(goal)
    \/ \E goal \in 1..MaxGoal : StartSession(goal)
    \/ ShowProgress

SpecReview == Init /\ [][NextReview]_vars

\* SpecSchedule: one word is answered over and over, days pass, and the
\* learner opens the page on any of them.
NextSchedule ==
    \/ \E r \in LearningResult : Drill(r)
    \/ \E d \in Elapsed : Lapse(d)
    \/ \E goal \in 1..MaxGoal : OpenPage(goal)

SpecSchedule == Init /\ [][NextSchedule]_vars

\* SpecDue: computeNextDue applied to every integer level from -MaxLevelArg
\* to MaxLevelArg, on any day.
NextDueOf(level) ==
    /\ ret' = [op |-> "computeNextDue", level |-> level,
               value |-> computeNextDue(level)]
    /\ UNCHANGED << store, clock, lapses, pending, made >>

NextDue ==
    \/ \E level \in -MaxLevelArg..MaxLevelArg : NextDueOf(level)
    \/ \E d \in Elapsed : Lapse(d)

SpecDue == Init /\ [][NextDue]_vars

\* SpecInterleave: the interleaver applied, once, to any list of up to
\* MaxWords words of the vocabulary, repeated words included.
WordLists ==
    UNION { [1..n -> VocabularyIds] : n \in 0..MaxWords }

Interleave(words) ==
    /\ ret = NoRet
    /\ ret' = [op |-> "interleaveByCategory", words |-> words,
               result |-> interleaveByCategory(words)]
    /\ UNCHANGED << store, clock, lapses, pending, made >>

NextInterleave == \E words \in WordLists : Interleave(words)

SpecInterleave == Init /\ [][NextInterleave]_vars

\* ------------------------------------------------------------------------
\* SpecRace: updateStatsOnResult is not awaited by every caller (the match
\* effect of QuickMatch, the speech callback of Quiz) and an async click
\* handler can be entered again before its first call has returned, so a
\* call can start while another is suspended at one of its two awaits.
\* The call reads the map (await getWordStats), computes the new statistics
\* without suspension, and writes the whole map back (await saveWordStats).
SumMade ==
    LET RECURSIVE Sum(_)
        Sum(S) == IF S = {} THEN 0
                  ELSE LET k == CHOOSE x \in S : TRUE
                       IN  made[k] + Sum(S \ {k})
    IN  Sum(WordIds)

\* The read resolves; the map to be written is computed from it.
BeginUpdate(c, wordId, result) ==
    LET allStats == getWordStats(TRUE)
        stats    == applyResult(allStats, wordId, result)
    IN  /\ pending[c].pc = "idle"
        /\ SumMade < MaxCalls
        /\ pending' = [pending EXCEPT ![c] =
              [pc |-> "write", wordId |-> wordId, stats |-> stats,
               allStats |-> Put(allStats, wordId, stats)]]
        /\ made' = [made EXCEPT ![wordId] = @ + 1]
        /\ ret' = NoRet
        /\ UNCHANGED << store, clock, lapses >>

\* The write resolves and the call returns the statistics it computed.
CompleteUpdate(c) ==
    /\ pending[c].pc = "write"
    /\ store' = pending[c].allStats
    /\ ret' = [op |-> "updateStatsOnResult", wordId |-> pending[c].wordId,
               status |-> "ok", stats |-> pending[c].stats, before |-> store]
    /\ pending' = [pending EXCEPT ![c] = Idle]
    /\ UNCHANGED << clock, lapses, made >>

NextRace ==
    \/ \E c \in Slots, w \in WordIds, r \in LearningResult : BeginUpdate(c, w, r)
    \/ \E c \in Slots : CompleteUpdate(c)

SpecRace == Init /\ [][NextRace]_vars

Quiescent == \A c \in Slots : pending[c].pc = "idle"

\* SpecResetRace: as SpecRace, and all progress is reset while calls are
\* suspended.  Of the four writes of resetAllProgress only the first, of the
\* statistics map, is on a key the suspended calls write.
ResetWhileWriting ==
    /\ store' = resetAllProgressStats
    /\ ret' = [op |-> "resetAllProgress", before |-> store]
    /\ UNCHANGED << clock, lapses, pending, made >>

NextResetRace ==
    \/ NextRace
    \/ ResetWhileWriting

SpecResetRace == Init /\ [][NextResetRace]_vars

\* ========================================================================
\* Properties.
IsUpdate == ret.op = "updateStatsOnResult"
IsQueue  == ret.op = "buildDailyQueue"

\* C1 (SpecDrill).  Level bounds: whatever results and flag toggles have been
\* applied to a word, its stored level is an integer from 0 to 5.
LevelBounds ==
    \A w \in DOMAIN store : store[w].level \in 0..5

\* A Correct result has just been applied to a word that was at level 5.
LevelBoundsWitness ==
    /\ IsUpdate /\ ret.result = "correct"
    /\ StatsOf(ret.before, ret.wordId).level = 5
    /\ store[ret.wordId].level = 5

\* The levels after one and after two Correct results applied to word w as
\* it is stored now.
AfterCorrect(w) == applyResult(store, w, "correct")
AfterTwoCorrect(w) == applyResult(Put(store, w, AfterCorrect(w)), w, "correct")

\* C2 as claimed (SpecDrill).  Level-up rule: from any stored state of a word
\* at level L < 5, the first of two consecutive Correct results leaves the
\* level at L and the second raises it to L + 1.
LevelUpRule ==
    \A w \in WordIds :
        LET L == StatsOf(store, w).level
        IN  L < 5 => /\ AfterCorrect(w).level = L
                     /\ AfterTwoCorrect(w).level = L + 1

\* C2 as amended (SpecDrill).  From a stored state at level L < 5 whose streak
\* is 0, the first of two consecutive Correct results leaves the level at L
\* and the second raises it to L + 1; when the streak is already 1 or more,
\* the first Correct raises the level to L + 1.
LevelUpRuleFromStreak ==
    \A w \in WordIds :
        LET L == StatsOf(store, w).level
        IN  L < 5 =>
              IF StatsOf(store, w).streak = 0
              THEN /\ AfterCorrect(w).level = L
                   /\ AfterTwoCorrect(w).level = L + 1
              ELSE AfterCorrect(w).level = L + 1

\* The second of two Correct results that followed a Wrong one at level 2 has
\* just been applied: the word was at level 1 with a streak of 1 and is now
\* at level 2.
LevelUpRuleWitness ==
    /\ IsUpdate /\ ret.result = "correct"
    /\ StatsOf(ret.before, ret.wordId).level = 1
    /\ StatsOf(ret.before, ret.wordId).streak = 1
    /\ store[ret.wordId].level = 2

\* C3 as claimed (Spec).  Skip neutrality: a Skipped result on an existing
\* record leaves level, streak and nextDue as they were, adds 1 to seen and
\* sets lastSeen to today.
SkipNeutrality ==
    (IsUpdate /\ ret.result = "skipped" /\ ret.wordId \in DOMAIN ret.before) =>
        LET prev == ret.before[ret.wordId]
            now  == store[ret.wordId]
        IN  /\ now.level = prev.level
            /\ now.streak = prev.streak
            /\ now.nextDue = prev.nextDue
            /\ now.seen = prev.seen + 1
            /\ now.lastSeen = ret.at

\* C4 as claimed (SpecRace).  No lost update: once every call has returned,
\* each word's seen counter equals the number of results submitted for it.
NoLostUpdate ==
    Quiescent => \A w \in WordIds : StatsOf(store, w).seen = made[w]

\* The lists of a DailyQueue in which word w occurs.
ListsOf(queue) ==
    << queue.dueWords, queue.recentlyWrong, queue.hardWords, queue.newWords,
       queue.mixedReview >>

Placements(queue, w) ==
    Cardinality({ i \in 1..5 : includes(ListsOf(queue)[i], w) })

\* C5 as claimed (SpecQueue).  Single placement: every word occurs in at most
\* one of the five lists buildDailyQueue returns.
SinglePlacement ==
    IsQueue => \A w \in WordIds : Placements(ret.queue, w) <= 1

\* The distinct words that are due, recently wrong or hard-flagged.
PriorityWords ==
    { w \in WordIds : /\ isSeen(store, w)
                      /\ \/ isDue(store[w].nextDue)
                         \/ wasWrongRecently(store[w].lastWrongDate, 7)
                         \/ store[w].hardFlag }

NeverSeen == { w \in WordIds : isNew(store, w) }

\* C6 as claimed (SpecQueue).  New-word budget: the number of new words
\* selected is min(|new bucket|, max(0, dailyGoal - P)), P counting each
\* priority word once.
NewWordBudget ==
    IsQueue =>
        Len(ret.queue.newWords) =
            Min(Cardinality(NeverSeen),
                Max(0, ret.dailyGoal - Cardinality(PriorityWords)))

\* C7 as claimed (SpecQueue).  Recently-wrong window: a seen word is in the
\* recentlyWrong list iff its lastWrongDate is a day no more than 7 calendar
\* days before today.
RecentlyWrongWindow ==
    IsQueue =>
        \A w \in WordIds : isSeen(store, w) =>
            (includes(ret.queue.recentlyWrong, w)
                <=> /\ store[w].lastWrongDate # NULL
                    /\ store[w].lastWrongDate >= getTodayString - 7)

\* C8 as claimed (SpecIO).  A call whose read of the store rejects fails and
\* leaves the store as it was.
ReadFailurePropagated ==
    (ret.op \in {"updateStatsOnResult", "toggleHardFlag"} /\ ~ret.readOk) =>
        /\ ret.status = "error"
        /\ store = ret.before

\* C9 (SpecIO).  A write that rejects is never reported as success: the call
\* ends in an error, returns no statistics, and the store keeps its contents.
WriteFailureReported ==
    (IsUpdate /\ ~ret.writeOk) =>
        /\ ret.status = "error"
        /\ "stats" \notin DOMAIN ret
        /\ store = ret.before

\* The write of a result for a word with recorded statistics has rejected.
WriteFailureWitness ==
    /\ IsUpdate /\ ~ret.writeOk /\ ret.readOk
    /\ ret.wordId \in DOMAIN ret.before
    /\ ret.before[ret.wordId].seen >= 1

\* C10 (SpecDrill).  Level-down rule: a Wrong result takes a word at level
\* L > 0 to L - 1 and leaves a word at level 0 there; the streak becomes 0,
\* lastWrongDate today, and nextDue today plus the interval of the new
\* level.
LevelDownRule ==
    (IsUpdate /\ ret.result = "wrong") =>
        LET prev == StatsOf(ret.before, ret.wordId)
            now  == store[ret.wordId]
        IN  /\ now.level = (IF prev.level > 0 THEN prev.level - 1 ELSE 0)
            /\ now.streak = 0
            /\ now.lastWrongDate = ret.at
            /\ now.nextDue = ret.at + SRS_INTERVALS[now.level]
            /\ ret.stats = now

\* A Wrong result has just taken a word from level 3 to level 2.
LevelDownRuleWitness ==
    /\ IsUpdate /\ ret.result = "wrong"
    /\ StatsOf(ret.before, ret.wordId).level = 3
    /\ StatsOf(ret.before, ret.wordId).streak >= 2
    /\ store[ret.wordId].level = 2
IsSession == ret.op = "getDailySessionQueue"

\* Word w was answered wrong no more than 7 calendar days before today.
WrongWithinWeek(w) ==
    /\ store[w].lastWrongDate # NULL
    /\ store[w].lastWrongDate >= getTodayString - 7

InQueue(queue, w) == Placements(queue, w) >= 1

\* The distinct words of the three priority lists of a queue.
PriorityPlaced(queue) ==
    { w \in WordIds : \/ includes(queue.dueWords, w)
                      \/ includes(queue.recentlyWrong, w)
                      \/ includes(queue.hardWords, w) }

\* C11 as claimed (SpecReview).  Priority words are never truncated: whatever
\* dailyGoal is, every due seen word is in dueWords and every seen word that
\* is recently wrong or hard-flagged is in the queue, and when dailyGoal is
\* no more than the number of priority words the newWords and mixedReview
\* lists are empty.
PriorityNotTruncated ==
    IsQueue =>
        /\ \A w \in WordIds : isSeen(store, w) =>
              /\ (store[w].nextDue = NULL \/ store[w].nextDue <= getTodayString)
                    => includes(ret.queue.dueWords, w)
              /\ WrongWithinWeek(w) => InQueue(ret.queue, w)
              /\ store[w].hardFlag => InQueue(ret.queue, w)
        /\ ret.dailyGoal <= Cardinality(PriorityPlaced(ret.queue)) =>
              /\ ret.queue.newWords = << >>
              /\ ret.queue.mixedReview = << >>

NoDuplicates(array) ==
    \A i, j \in 1..Len(array) : array[i] = array[j] => i = j

\* C12 (SpecQueue).  Queue backfill: when no word is due, recently wrong or
\* hard-flagged and N words were never seen, newWords holds min(N, dailyGoal)
\* distinct never-seen words, the three priority lists are empty, total is
\* the size of the lists returned and estimatedMinutes is ceil(total / 2).
QueueBackfill ==
    (IsQueue /\ PriorityWords = {}) =>
        LET q == ret.queue
        IN  /\ Len(q.newWords) = Min(Cardinality(NeverSeen), ret.dailyGoal)
            /\ NoDuplicates(q.newWords)
            /\ \A i \in 1..Len(q.newWords) : q.newWords[i] \in NeverSeen
            /\ q.dueWords = << >> /\ q.recentlyWrong = << >> /\ q.hardWords = << >>
            /\ q.total = Len(q.newWords) + Len(q.mixedReview)
            /\ 2 * q.estimatedMinutes >= q.total
            /\ 2 * (q.estimatedMinutes - 1) < q.total

\* A queue of dailyGoal new words was built while more words than that had
\* never been seen and nothing was in a priority bucket.
QueueBackfillWitness ==
    /\ IsQueue /\ PriorityWords = {}
    /\ Cardinality(NeverSeen) > ret.dailyGoal
    /\ Len(ret.queue.newWords) = ret.dailyGoal
    /\ ret.queue.total = ret.dailyGoal

\* C14 as claimed (SpecQueue).  Hard flag forces priority review: every word
\* whose hardFlag is set is in one of the three priority lists.
HardFlagPriority ==
    IsQueue =>
        \A w \in DOMAIN store : store[w].hardFlag =>
            \/ includes(ret.queue.dueWords, w)
            \/ includes(ret.queue.recentlyWrong, w)
            \/ includes(ret.queue.hardWords, w)

\* C17 (SpecQueue).  Due classification: a seen word is in dueWords iff its
\* nextDue is null or a day not after today; a word with no record or with
\* seen = 0 is in no list but newWords.
DueClassification ==
    IsQueue =>
        \A w \in WordIds :
            IF isSeen(store, w)
            THEN includes(ret.queue.dueWords, w)
                    <=> \/ store[w].nextDue = NULL
                        \/ store[w].nextDue <= getTodayString
            ELSE /\ ~includes(ret.queue.dueWords, w)
                 /\ ~includes(ret.queue.recentlyWrong, w)
                 /\ ~includes(ret.queue.hardWords, w)
                 /\ ~includes(ret.queue.mixedReview, w)

\* A queue was built on the very day a seen word falls due, after a day on
\* which it was not: the word is in dueWords.
DueClassificationWitness ==
    /\ IsQueue
    /\ \E w \in WordIds : /\ isSeen(store, w)
                          /\ store[w].nextDue = getTodayString
                          /\ store[w].lastSeen < getTodayString
                          /\ includes(ret.queue.dueWords, w)

\* The words of a list.
Range(array) == { array[i] : i \in 1..Len(array) }

\* C18 as claimed (SpecReview).  Flat session queue: the sequence
\* getDailySessionQueue returns has no word twice, holds every seen word that
\* is due, recently wrong or hard-flagged, and apart from the words of the
\* three priority lists holds exactly the newWords and mixedReview selected.
FlatSessionQueue ==
    IsSession =>
        /\ NoDuplicates(ret.session)
        /\ \A w \in WordIds : isSeen(store, w) =>
              ((\/ store[w].nextDue = NULL
                \/ store[w].nextDue <= getTodayString
                \/ WrongWithinWeek(w)
                \/ store[w].hardFlag) => w \in Range(ret.session))
        /\ Range(ret.session) =
              PriorityPlaced(ret.queue) \cup Range(ret.queue.newWords)
                 \cup Range(ret.queue.mixedReview)

\* The day offsets of the due-date table.
OffsetOfLevel(level) ==
    CASE level <= 0 -> 0 [] level = 1 -> 1 [] level = 2 -> 3
      [] level = 3 -> 7 [] level = 4 -> 14 [] OTHER -> 30

\* C16 (SpecDue).  Due-date table: computeNextDue(level) is today plus 0, 1,
\* 3, 7, 14, 30 days for levels 0 to 5, a level above 5 counting as 5 and a
\* level below 0 as 0, and no higher level gives an earlier date on the same
\* day.
DueDateTable ==
    ret.op = "computeNextDue" =>
        /\ ret.value = getTodayString + OffsetOfLevel(ret.level)
        /\ \A l \in -MaxLevelArg..MaxLevelArg :
              l >= ret.level => computeNextDue(l) >= ret.value

\* computeNextDue was called with a level above 5 on a day after the first
\* and returned the date 30 days on.
DueDateTableWitness ==
    /\ ret.op = "computeNextDue" /\ ret.level > 5
    /\ getTodayString > 0
    /\ ret.value = getTodayString + 30

Count(array, w) == Cardinality({ i \in 1..Len(array) : array[i] = w })

\* The words of one category, in the order of the list.
SameCategory(array, cat) ==
    LET keep(w) == categoryOf(w) = cat
    IN  SelectSeq(array, keep)

\* How many words of its own category precede the word at position p.
RankIn(array, p) ==
    Cardinality({ q \in 1..(p - 1) : categoryOf(array[q]) = categoryOf(array[p]) })

\* C19 (SpecInterleave).  The interleaver returns a permutation of its input
\* (same length, every word as often as in the input) in which the words of
\* one category keep their order and no (i+1)-th word of a category comes
\* before the i-th word of any category.
InterleaverPermutation ==
    ret.op = "interleaveByCategory" =>
        /\ Len(ret.result) = Len(ret.words)
        /\ \A w \in VocabularyIds : Count(ret.result, w) = Count(ret.words, w)
        /\ \A i \in 1..Len(Vocabulary) :
              SameCategory(ret.result, Vocabulary[i].category)
                 = SameCategory(ret.words, Vocabulary[i].category)
        /\ \A p, q \in 1..Len(ret.result) :
              p < q => RankIn(ret.result, p) <= RankIn(ret.result, q)

\* A list of MaxWords words of three categories that begins with two words
\* of one category was interleaved, and the result is in another order.
InterleaverPermutationWitness ==
    /\ ret.op = "interleaveByCategory"
    /\ Len(ret.words) = MaxWords
    /\ Len(categoriesOf(ret.words)) = 3
    /\ categoryOf(ret.words[1]) = categoryOf(ret.words[2])
    /\ ret.result # ret.words

\* The statistics of word w after Correct, after Correct Correct and after
\* Correct Correct Wrong, applied today to the store as it is now.
AfterCorrectCorrectWrong(w) ==
    LET a == applyResult(store, w, "correct")
        b == applyResult(Put(store, w, a), w, "correct")
        c == applyResult(Put(Put(store, w, a), w, b), w, "wrong")
    IN  << a, b, c >>

\* C20 (SpecDrill).  Result counters: every result adds 1 to seen and sets
\* lastSeen to today; correct changes only on Correct and wrong only on
\* Wrong, by 1; an absent record starts from zero counters, level 0, no flag
\* and null dates; from an absent record Correct, Correct, Wrong on one day
\* give (seen 1, correct 1, streak 1, level 0, nextDue today), (seen 2,
\* correct 2, streak 2, level 1, nextDue today + 1) and (seen 3, wrong 1,
\* streak 0, level 0, nextDue today, lastWrongDate today).
ResultCounters ==
    /\ IsUpdate =>
          LET prev == StatsOf(ret.before, ret.wordId)
              now  == store[ret.wordId]
          IN  /\ now.seen = prev.seen + 1
              /\ now.lastSeen = ret.at
              /\ now.correct = prev.correct + (IF ret.result = "correct" THEN 1 ELSE 0)
              /\ now.wrong = prev.wrong + (IF ret.result = "wrong" THEN 1 ELSE 0)
              /\ ret.wordId \notin DOMAIN ret.before =>
                    /\ now.seen = 1 /\ now.level = 0 /\ ~now.hardFlag
                    /\ now.correct + now.wrong <= 1
                    /\ now.streak = now.correct
                    /\ now.nextDue = ret.at
                    /\ now.lastWrongDate = (IF ret.result = "wrong" THEN ret.at ELSE NULL)
    /\ \A w \in WordIds \ DOMAIN store :
          LET t == getTodayString
              after == AfterCorrectCorrectWrong(w)
              blank == [wordId |-> w, hardFlag |-> FALSE, lastSeen |-> t]
          IN  /\ after[1] = blank @@ [seen |-> 1, correct |-> 1, wrong |-> 0,
                                      streak |-> 1, level |-> 0, nextDue |-> t,
                                      lastWrongDate |-> NULL]
              /\ after[2] = blank @@ [seen |-> 2, correct |-> 2, wrong |-> 0,
                                      streak |-> 2, level |-> 1, nextDue |-> t + 1,
                                      lastWrongDate |-> NULL]
              /\ after[3] = blank @@ [seen |-> 3, correct |-> 2, wrong |-> 1,
                                      streak |-> 0, level |-> 0, nextDue |-> t,
                                      lastWrongDate |-> t]

\* Correct, Correct, Wrong have been applied to a word on one day, the Wrong
\* last: the record went from (seen 2, level 1) to (seen 3, level 0).
ResultCountersWitness ==
    /\ IsUpdate /\ ret.result = "wrong" /\ ret.at > 0
    /\ StatsOf(ret.before, ret.wordId).seen = 2
    /\ StatsOf(ret.before, ret.wordId).correct = 2
    /\ StatsOf(ret.before, ret.wordId).level = 1
    /\ StatsOf(ret.before, ret.wordId).lastSeen = ret.at
    /\ store[ret.wordId].seen = 3
    /\ store[ret.wordId].level = 0
    /\ store[ret.wordId].nextDue = ret.at

IsSummary == ret.op = "getProgressSummary"

\* C13 (SpecProgress).  Reset: once resetAllProgress has returned, whatever
\* results and flag toggles came before, the summary computed from the store
\* shows 0 learned, 0 mastered and accuracy 0, every queue buildDailyQueue
\* can build has empty dueWords, recentlyWrong and hardWords and draws only
\* on new words, every word of the corpus being new, and a second reset
\* would leave the store as it is.
ResetClearsProgress ==
    ret.op = "resetAllProgress" =>
        /\ ret.summary.wordsLearned = 0
        /\ ret.summary.wordsMastered = 0
        /\ ret.summary.accuracy = 0
        /\ ret.summary.wordsNew = Len(WordSeq)
        /\ progressSummary(store) = ret.summary
        /\ \A w \in WordIds : isNew(store, w)
        /\ \A goal \in 1..MaxGoal : \A queue \in dailyQueues(store, goal) :
              /\ queue.dueWords = << >>
              /\ queue.recentlyWrong = << >>
              /\ queue.hardWords = << >>
              /\ queue.mixedReview = << >>
              /\ Len(queue.newWords) = Min(goal, Len(WordSeq))
        /\ resetAllProgressStats = store

\* All progress was reset when a word had been learned, another answered
\* wrong and a word flagged.
ResetClearsProgressWitness ==
    /\ ret.op = "resetAllProgress"
    /\ \E w \in DOMAIN ret.before : ret.before[w].level >= 1
    /\ \E w \in DOMAIN ret.before : ret.before[w].wrong >= 1
    /\ \E w \in DOMAIN ret.before : ret.before[w].hardFlag

\* C15 as claimed (SpecReview).  Summary counts: learned is the number of
\* words with level >= 1, mastered the number with level >= 4, in-progress
\* the number of seen words with level < 4 and new the number of never-seen
\* words.
SummaryCounts ==
    IsSummary =>
        /\ ret.summary.wordsLearned =
              Cardinality({ w \in WordIds : StatsOf(store, w).level >= 1 })
        /\ ret.summary.wordsMastered =
              Cardinality({ w \in WordIds : StatsOf(store, w).level >= 4 })
        /\ ret.summary.wordsInProgress =
              Cardinality({ w \in WordIds : /\ StatsOf(store, w).seen >= 1
                                            /\ StatsOf(store, w).level < 4 })
        /\ ret.summary.wordsNew =
              Cardinality({ w \in WordIds : StatsOf(store, w).seen = 0 })

IsToggle == ret.op = "toggleHardFlag"

\* Every record but that of word w is the same in the two maps, and neither
\* map has a record, w's apart, that the other lacks.
SameButFor(after, before, w) ==
    /\ DOMAIN after \ {w} = DOMAIN before \ {w}
    /\ \A k \in DOMAIN before \ {w} : after[k] = before[k]

QueueWords(queue) == { w \in WordIds : InQueue(queue, w) }

\* C22 as claimed (SpecQueue).  Queue total: total is the number of distinct
\* words in the five lists of the queue, a word that is in several priority
\* lists counting once.
QueueTotal ==
    IsQueue => ret.queue.total = Cardinality(QueueWords(ret.queue))

\* The sum buildDailyQueue calls priorityCount, on the queue it returned.
PriorityCountOf(queue) ==
    Len(queue.dueWords) + Len(queue.recentlyWrong) + Len(queue.hardWords)

LevelAfterCorrects(w, n) ==
    LET RECURSIVE run(_, _)
        run(allStats, k) ==
            IF k = 0 THEN StatsOf(allStats, w).level
            ELSE run(Put(allStats, w, applyResult(allStats, w, "correct")), k - 1)
    IN  run(store, n)

\* C23 (SpecDrill).  The streak is not reset on level-up: a Correct result
\* raises the level by exactly one iff the streak after the increment is at
\* least 2 and the level is below 5, and leaves the level alone otherwise,
\* the streak going up by one either way; from a never-seen word six Correct
\* results in a row give levels 0, 1, 2, 3, 4, 5 and a seventh leaves 5.
StreakKeptOnLevelUp ==
    /\ (IsUpdate /\ ret.result = "correct") =>
          LET prev == StatsOf(ret.before, ret.wordId)
              now  == store[ret.wordId]
          IN  /\ now.streak = prev.streak + 1
              /\ now.level = (IF prev.streak + 1 >= 2 /\ prev.level < 5
                              THEN prev.level + 1 ELSE prev.level)
    /\ \A w \in WordIds \ DOMAIN store :
          << LevelAfterCorrects(w, 1), LevelAfterCorrects(w, 2),
             LevelAfterCorrects(w, 3), LevelAfterCorrects(w, 4),
             LevelAfterCorrects(w, 5), LevelAfterCorrects(w, 6),
             LevelAfterCorrects(w, 7) >> = << 0, 1, 2, 3, 4, 5, 5 >>

\* The sixth Correct in a row on a word never answered otherwise has raised
\* it from level 4 to level 5.
StreakKeptOnLevelUpWitness ==
    /\ IsUpdate /\ ret.result = "correct"
    /\ StatsOf(ret.before, ret.wordId).level = 4
    /\ store[ret.wordId].level = 5
    /\ store[ret.wordId].seen = 6
    /\ store[ret.wordId].streak = 6

\* C24 (SpecInterleave).  Interleaver adjacency: two adjacent words of the
\* output have the same category only if every word after them has that
\* category too.
InterleaverAdjacency ==
    ret.op = "interleaveByCategory" =>
        \A p \in 1..(Len(ret.result) - 1) :
            categoryOf(ret.result[p]) = categoryOf(ret.result[p + 1]) =>
                \A q \in (p + 2)..Len(ret.result) :
                    categoryOf(ret.result[q]) = categoryOf(ret.result[p])

\* A list of two categories was interleaved and the output ends in a run of
\* three words of one category, the other category being exhausted.
InterleaverAdjacencyWitness ==
    /\ ret.op = "interleaveByCategory"
    /\ Len(categoriesOf(ret.words)) >= 2
    /\ \E p \in 1..(Len(ret.result) - 2) :
          /\ categoryOf(ret.result[p]) = categoryOf(ret.result[p + 1])
          /\ categoryOf(ret.result[p]) = categoryOf(ret.result[p + 2])

NullDueOnlyUnseen ==
    \A w \in DOMAIN store :
        /\ store[w].nextDue = NULL => store[w].seen = 0
        /\ store[w].seen >= 1 => (store[w].nextDue # NULL /\ store[w].lastSeen # NULL)

\* The progress of an answered word was reset while the other word had a
\* record made by a flag toggle alone, its nextDue null.
NullDueOnlyUnseenWitness ==
    /\ ret.op = "resetWordProgress"
    /\ ret.wordId \in DOMAIN ret.before
    /\ ret.before[ret.wordId].seen >= 2
    /\ ret.wordId \notin DOMAIN store
    /\ \E w \in DOMAIN store : store[w].seen = 0 /\ store[w].nextDue = NULL

ResetNotUndone ==
    [][ret.op = "resetAllProgress" =>
          /\ Cardinality(DOMAIN store') <= 1
          /\ \A w \in DOMAIN store' : store'[w].seen <= 1]_vars

\* C30 (SpecSchedule).  Review schedule over days: a word whose last result
\* was recorded on day d and left it at level L is absent from dueWords on
\* every day before d + interval(L) and in dueWords on every day from then
\* on, until it is answered again; a seen word at level 0 is due on the day
\* of its last result.
ReviewSchedule ==
    IsQueue =>
        \A w \in WordIds : isSeen(store, w) =>
            (includes(ret.queue.dueWords, w)
                <=> getTodayString >= store[w].lastSeen + OffsetOfLevel(store[w].level))

\* A queue was built the day before a word at level 2 or more falls due,
\* and the word is not in dueWords.
ReviewScheduleWitness ==
    /\ IsQueue
    /\ \E w \in WordIds :
          /\ isSeen(store, w) /\ store[w].level >= 2
          /\ getTodayString > store[w].lastSeen
          /\ getTodayString = store[w].lastSeen + OffsetOfLevel(store[w].level) - 1
          /\ ~includes(ret.queue.dueWords, w)
====
